---- MODULE Spec2Model ----
(***************************************************************************)
(* Model of tribler_core/upgrade/config_converter.py: the merge of the     *)
(* legacy settings files libtribler.conf and tribler.conf into the         *)
(* TriblerConfig object, and the conversion of the download checkpoints.   *)
(*                                                                         *)
(* Python objects live in a heap: a TriblerConfig is a reference into      *)
(* `heap`, copy() allocates a new object, a setter writes the object the   *)
(* reference names.                                                        *)
(***************************************************************************)
EXTENDS Integers, Sequences, FiniteSets, TLC

VARIABLES
    pc,            \* position of the running function
    caller,        \* who called the merge function: "harness" or "c71"
    fn,            \* the merge function: "add_libtribler_config" or "add_tribler_config"
    heap,          \* the TriblerConfig objects allocated so far: reference -> settings
    new_config,    \* parameter new_config of the merge function (a reference)
    old_config,    \* parameter old_config: the parsed legacy file, its fields in iteration order
    idx,           \* position of the (section, name) loops in old_config
    config,        \* local `config` of the merge function: the current baseline (a reference)
    entry_value,   \* the settings new_config held when the merge function was entered
    validate_log,  \* the calls of validate() of this pass: the field, the object, its settings, the outcome
    log,           \* what the logger was given
    exc,           \* the exception that left the function, "" when none
    result,        \* the reference the merge function returned, 0 before it returns
    current_config,   \* current_config of convert_config_to_tribler71 (a reference)
    libtribler_conf,  \* state_dir / "libtribler.conf"
    tribler_conf,     \* state_dir / "tribler.conf"
    state_files,      \* the *.state files of the checkpoint directory, by base name
    conf_files,       \* the *.conf files of the checkpoint directory, by base name
    todo,             \* the base names the running glob() has still to yield
    filename,         \* the base name of the file the running loop is at, "" between files
    download_cfg,     \* the parser of the file the loop of convert_config_to_tribler74 is at
    option,           \* position of the loop over the two payload options
    run,              \* 1 in the first run of the three conversions, 2 in the second,
                      \* 0 when convert_config_to_tribler74 or 75 is called first
    first_run         \* the disk and the settings as the first run left them

\* what the merge functions do not touch
outer_vars == <<current_config, libtribler_conf, tribler_conf, state_files, conf_files,
                todo, filename, download_cfg, option, run, first_run>>

\* the locals of the merge functions
merge_locals == <<caller, fn, new_config, old_config, idx, config, entry_value,
                  validate_log, result>>

vars == <<pc, heap, log, exc, merge_locals, outer_vars>>

----------------------------------------------------------------------------
(* Bounds *)

\* the largest number of fields of a legacy settings file
MaxFields == 2

----------------------------------------------------------------------------
(* Python values, as ast.literal_eval produces them *)

Scalar(t, s) == [t |-> t, s |-> s, e |-> << >>]

Container(t, e) == [t |-> t, s |-> "", e |-> e]

\* str(port)
str(v) == Scalar("str", v.s)

\* the raw strings the legacy files of the model hold
RawValues == {"None", "True", "7", "[1, 2]", "('h', [1, 2])", "('h',)", "abc"}

\* ast.literal_eval(string_value); t = "ValueError" when it raises
literal_eval(string_value) ==
    CASE string_value = "None" -> Scalar("NoneType", "None")
      [] string_value = "True" -> Scalar("bool", "True")
      [] string_value = "7" -> Scalar("int", "7")
      [] string_value = "[1, 2]" ->
            Container("list", <<Scalar("int", "1"), Scalar("int", "2")>>)
      [] string_value = "('h', [1, 2])" ->
            Container("tuple", <<Scalar("str", "h"),
                                 Container("list", <<Scalar("int", "1"), Scalar("int", "2")>>)>>)
      [] string_value = "('h',)" -> Container("tuple", <<Scalar("str", "h")>>)
      [] OTHER -> Scalar("ValueError", string_value)

\* try: value = ast.literal_eval(string_value) / except: value = string_value
decode_value(string_value) ==
    IF literal_eval(string_value).t = "ValueError"
    THEN Scalar("str", string_value)
    ELSE literal_eval(string_value)

\* is_skipped with the "None" test dropped
is_skipped_never(string_value) == FALSE

\* if string_value == "None": continue
is_skipped(string_value) == string_value = "None"

----------------------------------------------------------------------------
(* The settings object *)

BoolKeys == {"tunnel_community_enabled", "tunnel_community_exitnode_enabled",
             "torrent_checking_enabled", "libtorrent_utp", "video_server_enabled",
             "watch_folder_enabled", "http_api_enabled", "credit_mining_enabled",
             "default_anonymity_enabled"}

IntKeys == {"libtorrent.proxy_type", "libtorrent_max_conn_download",
            "libtorrent_max_download_rate", "libtorrent_max_upload_rate",
            "anon_listen_port", "libtorrent.anon_proxy_type", "video_server_port",
            "http_api_port", "default_number_hops", "download_defaults.seeding_ratio",
            "download_defaults.seeding_time", "download_defaults.version"}

StrKeys == {"root_state_dir", "log_dir", "trustchain_keypair_filename",
            "libtorrent.anon_proxy_server_ip", "watch_folder_path",
            "download_defaults.saveas", "download_defaults.seeding_mode"}

ListKeys == {"tunnel_community_socks5_listen_ports", "libtorrent.proxy_server",
             "libtorrent.proxy_auth", "libtorrent.anon_proxy_server_ports",
             "libtorrent.anon_proxy_auth", "credit_mining_sources"}

SettingKeys == BoolKeys \cup IntKeys \cup StrKeys \cup ListKeys

\* the settings of a freshly constructed TriblerConfig
DefaultSettings ==
    [k \in SettingKeys |->
        CASE k \in BoolKeys -> Scalar("bool", "False")
          [] k \in IntKeys -> Scalar("int", "0")
          [] k \in StrKeys -> Scalar("str", "")
          [] OTHER -> Container("list", << >>)]

\* a settings object that does not validate: a setter was given a string for a boolean
BrokenSettings == [DefaultSettings EXCEPT !["libtorrent_utp"] = Scalar("str", "abc")]

\* TriblerConfig.validate(): every setting holds a value of its type
validate(settings) ==
    \A k \in SettingKeys :
        CASE k \in BoolKeys -> settings[k].t = "bool"
          [] k \in IntKeys -> settings[k].t = "int"
          [] k \in StrKeys -> settings[k].t = "str"
          [] OTHER -> settings[k].t \in {"list", "tuple"}

\* TriblerConfig.copy(): a new object holding the same settings
copy(h, ref) == h[ref]

----------------------------------------------------------------------------
(* The mapping of add_libtribler_config *)

\* the setting a (section, name) of libtribler.conf is written to, "" when the chain has no branch
libtribler_setting(section, name) ==
    CASE section = "general" /\ name = "state_dir" -> "root_state_dir"
      [] section = "general" /\ name = "log_dir" -> "log_dir"
      [] section = "tunnel_community" /\ name = "enabled" -> "tunnel_community_enabled"
      [] section = "tunnel_community" /\ name = "socks5_listen_ports" ->
            "tunnel_community_socks5_listen_ports"
      [] section = "tunnel_community" /\ name = "exitnode_enabled" ->
            "tunnel_community_exitnode_enabled"
      [] section = "general" /\ name = "ec_keypair_filename_multichain" ->
            "trustchain_keypair_filename"
      [] section = "torrent_checking" /\ name = "enabled" -> "torrent_checking_enabled"
      [] section = "libtorrent" /\ name = "lt_proxytype" -> "libtorrent.proxy_type"
      [] section = "libtorrent" /\ name = "lt_proxyserver" -> "libtorrent.proxy_server"
      [] section = "libtorrent" /\ name = "lt_proxyauth" -> "libtorrent.proxy_auth"
      [] section = "libtorrent" /\ name = "max_connections_download" ->
            "libtorrent_max_conn_download"
      [] section = "libtorrent" /\ name = "max_download_rate" -> "libtorrent_max_download_rate"
      [] section = "libtorrent" /\ name = "max_upload_rate" -> "libtorrent_max_upload_rate"
      [] section = "libtorrent" /\ name = "utp" -> "libtorrent_utp"
      [] section = "libtorrent" /\ name = "anon_listen_port" -> "anon_listen_port"
      [] section = "libtorrent" /\ name = "anon_proxytype" -> "libtorrent.anon_proxy_type"
      [] section = "libtorrent" /\ name = "anon_proxyserver" -> "libtorrent.anon_proxy_server_ip"
      [] section = "libtorrent" /\ name = "anon_proxyauth" -> "libtorrent.anon_proxy_auth"
      [] section = "video" /\ name = "enabled" -> "video_server_enabled"
      [] section = "video" /\ name = "port" -> "video_server_port"
      [] section = "watch_folder" /\ name = "enabled" -> "watch_folder_enabled"
      [] section = "watch_folder" /\ name = "watch_folder_dir" -> "watch_folder_path"
      [] section = "http_api" /\ name = "enabled" -> "http_api_enabled"
      [] section = "http_api" /\ name = "port" -> "http_api_port"
      [] section = "credit_mining" /\ name = "enabled" -> "credit_mining_enabled"
      [] section = "credit_mining" /\ name = "sources" -> "credit_mining_sources"
      [] OTHER -> ""

\* the setting a (section, name) of tribler.conf is written to, "" when no `if` matches
tribler_setting(section, name) ==
    CASE section = "Tribler" /\ name = "default_anonymity_enabled" -> "default_anonymity_enabled"
      [] section = "Tribler" /\ name = "default_number_hops" -> "default_number_hops"
      [] section = "downloadconfig" /\ name = "saveas" -> "download_defaults.saveas"
      [] section = "downloadconfig" /\ name = "seeding_mode" -> "download_defaults.seeding_mode"
      [] section = "downloadconfig" /\ name = "seeding_ratio" -> "download_defaults.seeding_ratio"
      [] section = "downloadconfig" /\ name = "seeding_time" -> "download_defaults.seeding_time"
      [] section = "downloadconfig" /\ name = "version" -> "download_defaults.version"
      [] OTHER -> ""

\* the settings the branch of (section, name) writes for `value`: setting -> value written.
\* Empty when no branch matches and when the branch's isinstance test fails.
field_writes(f, section, name, value) ==
    LET key == IF f = "add_libtribler_config" THEN libtribler_setting(section, name)
                                                ELSE tribler_setting(section, name)
    IN  CASE key = "" -> << >>
          [] key = "tunnel_community_socks5_listen_ports" ->
                IF value.t = "list" THEN (key :> value) ELSE << >>
          [] key = "libtorrent.anon_proxy_server_ip" ->
                IF value.t = "tuple" /\ value.e[2].t = "list"
                THEN ("libtorrent.anon_proxy_server_ip" :> value.e[1]) @@
                     ("libtorrent.anon_proxy_server_ports" :>
                        Container("list", [i \in DOMAIN value.e[2].e |-> str(value.e[2].e[i])]))
                ELSE << >>
          [] OTHER -> (key :> value)

\* isinstance(value, tuple) and isinstance(value[1], list): value[1] of a tuple shorter
\* than two raises IndexError
field_raises(f, section, name, value) ==
    /\ f = "add_libtribler_config"
    /\ section = "libtorrent" /\ name = "anon_proxyserver"
    /\ value.t = "tuple" /\ Len(value.e) < 2

\* apply_field with a last branch that stores the value of any other field
apply_field_catch_all(settings, f, section, name, value) ==
    LET w == field_writes(f, section, name, value)
    IN  IF w = << >>
        THEN [settings EXCEPT ![CHOOSE k \in StrKeys : TRUE] = value]
        ELSE [k \in SettingKeys |-> IF k \in DOMAIN w THEN w[k] ELSE settings[k]]

\* the settings after the branch of (section, name) acted on them
apply_field(settings, f, section, name, value) ==
    LET w == field_writes(f, section, name, value)
    IN  [k \in SettingKeys |-> IF k \in DOMAIN w THEN w[k] ELSE settings[k]]

----------------------------------------------------------------------------
(* The merge pass: add_libtribler_config, add_tribler_config *)

\* candidate without the copy: temp_config = config
candidate_alias(h, cfg) == [heap |-> h, ref |-> cfg]

\* temp_config = config.copy()
candidate(h, cfg) == [heap |-> Append(h, copy(h, cfg)), ref |-> Len(h) + 1]

\* receiver when the setters are called on new_config
receiver_input(temp, cfg, new) == new

\* the object the branches call their setter on: temp_config
receiver(temp, cfg, new) == temp

\* after_validate with config = temp_config moved out of the try
after_validate_always(passed, cfg, temp) == temp

\* after_validate with config = temp_config left out
after_validate_never(passed, cfg, temp) == cfg

\* try: temp_config.validate(); config = temp_config / except InvalidConfigException: log
after_validate(passed, cfg, temp) == IF passed THEN temp ELSE cfg

\* where the merge function returns to
return_to(who, f) ==
    IF who = "harness" THEN "returned"
    ELSE IF f = "add_libtribler_config" THEN "c71_libtribler_remove" ELSE "c71_tribler_remove"

\* config = new_config.copy()
add_config_enter ==
    /\ pc = "add_config"
    /\ heap' = Append(heap, copy(heap, new_config))
    /\ config' = Len(heap) + 1
    /\ idx' = 1
    /\ entry_value' = heap[new_config]
    /\ validate_log' = << >>
    /\ pc' = "add_config_loop"
    /\ UNCHANGED <<caller, fn, new_config, old_config, log, exc, result>>
    /\ UNCHANGED outer_vars

\* one iteration whose string_value is "None": continue
add_config_skip ==
    /\ pc = "add_config_loop"
    /\ idx <= Len(old_config)
    /\ is_skipped(old_config[idx].string_value)
    /\ idx' = idx + 1
    /\ UNCHANGED <<pc, caller, fn, heap, new_config, old_config, config, entry_value,
                   validate_log, log, exc, result>>
    /\ UNCHANGED outer_vars

\* one iteration that reaches validate(): decode, copy, apply the branch, validate,
\* adopt the candidate or log the rejection
add_config_field(passes) ==
    /\ pc = "add_config_loop"
    /\ idx <= Len(old_config)
    /\ ~is_skipped(old_config[idx].string_value)
    /\ LET section == old_config[idx].section
           name == old_config[idx].name
           value == decode_value(old_config[idx].string_value)
           c == candidate(heap, config)
           r == receiver(c.ref, config, new_config)
           h == [c.heap EXCEPT ![r] = apply_field(@, fn, section, name, value)]
           passed == validate(h[c.ref])
       IN  /\ ~field_raises(fn, section, name, value)
           /\ passed = passes
           /\ heap' = h
           /\ validate_log' = Append(validate_log,
                                     [field |-> idx, ref |-> c.ref, settings |-> h[c.ref],
                                      passed |-> passed])
           /\ config' = after_validate(passed, config, c.ref)
           /\ log' = IF passed THEN log ELSE Append(log, "debug: field of " \o fn \o " was wrong")
    /\ idx' = idx + 1
    /\ UNCHANGED <<pc, caller, fn, new_config, old_config, entry_value, exc, result>>
    /\ UNCHANGED outer_vars

add_config_adopt == add_config_field(TRUE)

add_config_reject == add_config_field(FALSE)

\* one iteration whose branch raises: the exception leaves the merge function
add_config_raise ==
    /\ pc = "add_config_loop"
    /\ idx <= Len(old_config)
    /\ ~is_skipped(old_config[idx].string_value)
    /\ field_raises(fn, old_config[idx].section, old_config[idx].name,
                    decode_value(old_config[idx].string_value))
    /\ heap' = candidate(heap, config).heap
    /\ exc' = "IndexError"
    /\ pc' = "raised"
    /\ UNCHANGED <<caller, fn, new_config, old_config, idx, config, entry_value,
                   validate_log, log, result>>
    /\ UNCHANGED outer_vars

\* return config
add_config_return ==
    /\ pc = "add_config_loop"
    /\ idx > Len(old_config)
    /\ result' = config
    /\ pc' = return_to(caller, fn)
    /\ UNCHANGED <<caller, fn, heap, new_config, old_config, idx, config, entry_value,
                   validate_log, log, exc>>
    /\ UNCHANGED outer_vars

add_config ==
    \/ add_config_enter
    \/ add_config_skip
    \/ add_config_adopt
    \/ add_config_reject
    \/ add_config_raise
    \/ add_config_return

----------------------------------------------------------------------------
(* The files of the state directory *)

\* the base names of the checkpoint files
Names == {"d1", "d2"}

\* a legacy settings file that does not exist
NoLegacyFile == [exists |-> FALSE, fields |-> << >>]

\* a legacy settings file as RawConfigParser.read() parses it: its fields in the order
\* sections() and items(section) yield them
LegacyFile(fields) == [exists |-> TRUE, fields |-> fields]

Field(section, name, string_value) ==
    [section |-> section, name |-> name, string_value |-> string_value]

\* a checkpoint file that does not exist
Absent == [exists |-> FALSE, header |-> FALSE, kv |-> {}]

\* a checkpoint file: header is FALSE when it has no section header, kv are its
\* <<section, key, value>> entries
CheckpointFile(kv) == [exists |-> TRUE, header |-> TRUE, kv |-> kv]

HeaderlessFile == [exists |-> TRUE, header |-> FALSE, kv |-> {}]

----------------------------------------------------------------------------
(* The merge functions called on their own *)

\* the (section, name) pairs of the legacy files of the model
LibtriblerNames == {<<"general", "state_dir">>,
                    <<"tunnel_community", "socks5_listen_ports">>,
                    <<"libtorrent", "anon_proxyserver">>,
                    <<"libtorrent", "utp">>,
                    <<"user", "nickname">>}

TriblerNames == {<<"Tribler", "default_number_hops">>,
                 <<"downloadconfig", "saveas">>,
                 <<"user", "nickname">>}

\* the sequences of at most n fields over the names sn, no (section, name) twice:
\* the parser refuses a file that repeats one
RECURSIVE LegacyFields(_, _)
LegacyFields(sn, n) ==
    IF n = 0 THEN {<< >>}
    ELSE LET shorter == LegacyFields(sn, n - 1)
             longest == {fs \in shorter : Len(fs) = n - 1}
             fresh(fs) == {x \in sn : \A i \in 1..Len(fs) :
                                         <<fs[i].section, fs[i].name>> # x}
         IN  shorter \cup
             UNION {{Append(fs, Field(x[1], x[2], raw)) : x \in fresh(fs), raw \in RawValues} :
                    fs \in longest}

\* add_libtribler_config or add_tribler_config is called with a settings object and a
\* parsed legacy file
InitMerge ==
    /\ pc = "add_config"
    /\ caller = "harness"
    /\ fn \in {"add_libtribler_config", "add_tribler_config"}
    /\ heap \in {<<DefaultSettings>>, <<BrokenSettings>>}
    /\ new_config = 1
    /\ old_config \in LegacyFields(IF fn = "add_libtribler_config" THEN LibtriblerNames
                                                                 ELSE TriblerNames, MaxFields)
    /\ idx = 0
    /\ config = 0
    /\ entry_value = heap[1]
    /\ validate_log = << >>
    /\ log = << >>
    /\ exc = ""
    /\ result = 0
    /\ current_config = 1
    /\ libtribler_conf = NoLegacyFile
    /\ tribler_conf = NoLegacyFile
    /\ state_files = [n \in Names |-> Absent]
    /\ conf_files = [n \in Names |-> Absent]
    /\ todo = {}
    /\ filename = ""
    /\ download_cfg = {}
    /\ option = 0
    /\ run = 1
    /\ first_run = << >>

NextMerge == add_config

SpecMerge == InitMerge /\ [][NextMerge]_vars

----------------------------------------------------------------------------
(* Claims about the merge functions, checked under SpecMerge *)

\* the setting the running merge function maps the field to, "" when it maps it nowhere
SettingOf(fld) ==
    IF fn = "add_libtribler_config" THEN libtribler_setting(fld.section, fld.name)
                                    ELSE tribler_setting(fld.section, fld.name)

Mapped(fld) == SettingOf(fld) # ""

\* the settings the merge function may write for the field
TargetsOf(fld) ==
    IF SettingOf(fld) = "libtorrent.anon_proxy_server_ip"
    THEN {"libtorrent.anon_proxy_server_ip", "libtorrent.anon_proxy_server_ports"}
    ELSE {SettingOf(fld)} \ {""}

\* the field is mapped and its decoded value is of the type its branch applies
Applied(fld) ==
    LET v == decode_value(fld.string_value)
    IN  /\ Mapped(fld)
        /\ SettingOf(fld) = "tunnel_community_socks5_listen_ports" => v.t = "list"
        /\ SettingOf(fld) = "libtorrent.anon_proxy_server_ip" =>
              v.t = "tuple" /\ Len(v.e) >= 2 /\ v.e[2].t = "list"

\* the settings carry the value of the field in the mapped setting
Carries(settings, fld) ==
    LET v == decode_value(fld.string_value)
    IN  IF SettingOf(fld) = "libtorrent.anon_proxy_server_ip"
        THEN /\ settings["libtorrent.anon_proxy_server_ip"] = v.e[1]
             /\ settings["libtorrent.anon_proxy_server_ports"].t = "list"
             /\ Len(settings["libtorrent.anon_proxy_server_ports"].e) = Len(v.e[2].e)
             /\ \A j \in 1..Len(v.e[2].e) :
                   settings["libtorrent.anon_proxy_server_ports"].e[j] = str(v.e[2].e[j])
        ELSE settings[SettingOf(fld)] = v

\* the step is an iteration in which validate() raised InvalidConfigException
RejectedStep ==
    /\ pc = "add_config_loop"
    /\ Len(validate_log') = Len(validate_log) + 1
    /\ ~validate_log'[Len(validate_log')].passed

\* C1: when the candidate of a mapped field fails validate(), the baseline after the
\* field is the baseline before it, object and settings, and the loop goes on with the
\* next field.
C1_RejectedFieldKeepsBaseline ==
    [][(RejectedStep /\ Mapped(old_config[idx])) =>
          /\ config' = config
          /\ heap'[config'] = heap[config]
          /\ idx' = idx + 1
          /\ pc' = "add_config_loop"]_vars

\* C1 witness: a field was adopted and changed the settings, the next field, a mapped
\* one, was rejected, and the baseline still holds the adopted settings.
C1_Witness ==
    /\ pc = "add_config_loop"
    /\ Len(validate_log) = 2
    /\ validate_log[1].passed /\ validate_log[1].settings # entry_value
    /\ ~validate_log[2].passed /\ Mapped(old_config[validate_log[2].field])
    /\ idx = validate_log[2].field + 1
    /\ heap[config] = validate_log[1].settings

\* the object a merge pass holds as its baseline, or has returned
Baseline == IF pc = "returned" THEN result ELSE config

C4_NoneIsSkipped ==
    [][(/\ pc = "add_config_loop"
        /\ idx <= Len(old_config)
        /\ old_config[idx].string_value = "None") =>
          /\ heap' = heap
          /\ config' = config
          /\ validate_log' = validate_log
          /\ log' = log
          /\ idx' = idx + 1
          /\ pc' = "add_config_loop"]_vars

\* C4 witness: the first field is a mapped one with the value "None", the loop is past
\* it, and the heap holds only the input and the baseline.
C4_Witness ==
    /\ pc = "add_config_loop"
    /\ idx = 2
    /\ old_config[1].string_value = "None" /\ Mapped(old_config[1])
    /\ validate_log = << >>
    /\ Len(heap) = 2

\* C5: the baseline of a pass, and the object returned, is the copy taken at entry with
\* the settings of the input, or a candidate on which validate() succeeded, still
\* holding the settings validated; never a candidate on which validate() failed.
C5_BaselineIsValidated ==
    pc \in {"add_config_loop", "returned"} =>
        /\ \/ heap[Baseline] = entry_value /\ \A i \in 1..Len(validate_log) :
                                                  validate_log[i].ref # Baseline
           \/ \E i \in 1..Len(validate_log) :
                 /\ validate_log[i].passed
                 /\ validate_log[i].ref = Baseline
                 /\ validate_log[i].settings = heap[Baseline]
        /\ \A i \in 1..Len(validate_log) :
              ~validate_log[i].passed => validate_log[i].ref # Baseline

\* C5 witness: a candidate failed validate(), a later one passed and is the baseline.
C5_Witness ==
    /\ pc = "add_config_loop"
    /\ Len(validate_log) = 2
    /\ ~validate_log[1].passed
    /\ validate_log[2].passed
    /\ config = validate_log[2].ref
    /\ heap[config] # entry_value

\* C6: from the entry of a merge function on, also after it returned or raised, the
\* object passed as new_config holds the settings it held at entry.
C6_InputIsNotMutated ==
    pc \in {"add_config_loop", "returned", "raised"} => heap[new_config] = entry_value

\* C6 witness: the pass returned after adopting two fields that each changed the
\* settings; the object returned is not the input.
C6_Witness ==
    /\ pc = "returned"
    /\ Len(validate_log) = 2
    /\ validate_log[1].passed /\ validate_log[2].passed
    /\ validate_log[1].settings # entry_value
    /\ validate_log[2].settings # validate_log[1].settings
    /\ result # new_config

\* C19: an iteration of a merge function on a field that its mapping does not hold
\* leaves the baseline with the settings it had, leaves the input as it was, raises
\* nothing and goes on with the next field; when the baseline is valid it logs nothing.
C19_UnmappedFieldChangesNothing ==
    [][(pc = "add_config_loop" /\ idx <= Len(old_config) /\ ~Mapped(old_config[idx])) =>
          /\ heap'[config'] = heap[config]
          /\ heap'[new_config] = heap[new_config]
          /\ pc' = "add_config_loop" /\ exc' = exc
          /\ idx' = idx + 1
          /\ validate(heap[config]) => log' = log]_vars

\* C19 witness: a field was adopted and changed the settings, the next field, an
\* unmapped one with a value, was taken: the baseline holds the adopted settings and
\* nothing was logged.
C19_Witness ==
    /\ pc = "add_config_loop"
    /\ Len(validate_log) = 2
    /\ validate_log[1].passed /\ validate_log[1].settings # entry_value
    /\ ~Mapped(old_config[validate_log[2].field])
    /\ idx = validate_log[2].field + 1
    /\ heap[config] = validate_log[1].settings
    /\ log = << >>

----------------------------------------------------------------------------
(* The values of the checkpoint files *)

\* a value of a checkpoint file: its kind t, its paths p, its indexes n
Missing == [t |-> "None", p |-> << >>, n |-> << >>]

\* a payload (metainfo, engineresumedata) over the file table `files`; in a .state file
\*   t = "py2"          the repr of a dictionary, written by Python 2
\*   t = "garbage"      text that is no Python source
\*   t = "nonliteral"   Python source that is no literal
\*   t = "unbencodable" a literal the encoding of lines 224-225 raises ValueError on
\* and t = "b64" once it is bencoded and base64-encoded
Payload(t, files) == [t |-> t, p |-> files, n |-> << >>]

\* a selected_files list of paths
Paths(paths) == [t |-> "paths", p |-> paths, n |-> << >>]

\* a selected_file_indexes list
Indexes(indexes) == [t |-> "indexes", p |-> << >>, n |-> indexes]

\* any other value
Text(text) == [t |-> "text", p |-> <<text>>, n |-> << >>]

has_option(kv, section, key) == \E e \in kv : e[1] = section /\ e[2] = key

\* CallbackConfigParser.get(section, option): the value, None when there is none
get(kv, section, key) ==
    IF has_option(kv, section, key)
    THEN (CHOOSE e \in kv : e[1] = section /\ e[2] = key)[3]
    ELSE Missing

remove_option(kv, section, key) == {e \in kv : ~(e[1] = section /\ e[2] = key)}

set(kv, section, key, value) == remove_option(kv, section, key) \cup {<<section, key, value>>}

has_section(kv, section) == \E e \in kv : e[1] = section

\* remove with os.remove left out
remove_nothing(files, name) == files

\* os.remove(filename)
remove(files, name) == [files EXCEPT ![name] = Absent]

\* the names of the files glob() yields
glob(files) == {name \in Names : files[name].exists}

\* what lines 221-225 do with the value of a payload option: the exception that leaves
\* the function, "caught" when lines 224-225 raise ValueError, "ok" when they store
\* the encoded value
upgrade_outcome(value) ==
    CASE value.t = "None" -> "TypeError"          \* value + '\n'
      [] value.t = "garbage" -> "ParseError"      \* refactoring_tool.refactor_string
      [] value.t = "nonliteral" -> "ValueError"   \* ast.literal_eval, line 222
      [] value.t = "unbencodable" -> "caught"
      [] OTHER -> "ok"

\* base64.b64encode(lt.bencode(value)).decode('utf-8')
b64encode_bencode(value) == Payload("b64", value.p)

\* DownloadConfig.get_metainfo(): the decoded metainfo, None when the file has none
get_metainfo(kv) ==
    IF get(kv, "state", "metainfo").t = "b64"
    THEN Payload("dict", get(kv, "state", "metainfo").p)
    ELSE Missing

\* TorrentDef.get_index_of_file_in_files(fn): the index of the first file of the
\* table with that path, counted from 0
get_index_of_file_in_files(files, path) ==
    (CHOOSE i \in 1..Len(files) : files[i] = path /\ \A j \in 1..(i - 1) : files[j] # path) - 1

in_files(files, path) == \E i \in 1..Len(files) : files[i] = path

----------------------------------------------------------------------------
(* convert_config_to_tribler71 *)

raise(exception) ==
    /\ exc' = exception
    /\ pc' = "raised"

\* libtribler.conf: when it exists, read it and call add_libtribler_config
c71_libtribler ==
    /\ pc = "c71_libtribler"
    /\ IF libtribler_conf.exists
       THEN /\ pc' = "add_config"
            /\ fn' = "add_libtribler_config"
            /\ new_config' = current_config
            /\ old_config' = libtribler_conf.fields
       ELSE /\ pc' = "c71_tribler"
            /\ UNCHANGED <<fn, new_config, old_config>>
    /\ UNCHANGED <<heap, log, exc, caller, idx, config, entry_value, validate_log, result,
                   outer_vars>>

\* c71_libtribler_remove with os.remove(libtribler_file_loc) put off
c71_libtribler_keep ==
    /\ pc = "c71_libtribler_remove"
    /\ current_config' = result
    /\ pc' = "c71_tribler"
    /\ UNCHANGED <<heap, log, exc, merge_locals, libtribler_conf, tribler_conf, state_files,
                   conf_files, todo, filename, download_cfg, option, run, first_run>>

\* current_config = add_libtribler_config(...); os.remove(libtribler_file_loc)
c71_libtribler_remove ==
    /\ pc = "c71_libtribler_remove"
    /\ current_config' = result
    /\ libtribler_conf' = NoLegacyFile
    /\ pc' = "c71_tribler"
    /\ UNCHANGED <<heap, log, exc, merge_locals, tribler_conf, state_files, conf_files,
                   todo, filename, download_cfg, option, run, first_run>>

\* c71_tribler with os.remove(tribler_file_loc) before the call of add_tribler_config
c71_tribler_removes_first ==
    /\ pc = "c71_tribler"
    /\ IF tribler_conf.exists
       THEN /\ pc' = "add_config"
            /\ fn' = "add_tribler_config"
            /\ new_config' = current_config
            /\ old_config' = tribler_conf.fields
       ELSE /\ pc' = "c71_glob"
            /\ UNCHANGED <<fn, new_config, old_config>>
    /\ tribler_conf' = NoLegacyFile
    /\ UNCHANGED <<heap, log, exc, caller, idx, config, entry_value, validate_log, result,
                   current_config, libtribler_conf, state_files, conf_files, todo, filename,
                   download_cfg, option, run, first_run>>

\* tribler.conf: when it exists, read it and call add_tribler_config
c71_tribler ==
    /\ pc = "c71_tribler"
    /\ IF tribler_conf.exists
       THEN /\ pc' = "add_config"
            /\ fn' = "add_tribler_config"
            /\ new_config' = current_config
            /\ old_config' = tribler_conf.fields
       ELSE /\ pc' = "c71_glob"
            /\ UNCHANGED <<fn, new_config, old_config>>
    /\ UNCHANGED <<heap, log, exc, caller, idx, config, entry_value, validate_log, result,
                   outer_vars>>

\* current_config = add_tribler_config(...); os.remove(tribler_file_loc)
c71_tribler_remove ==
    /\ pc = "c71_tribler_remove"
    /\ current_config' = result
    /\ tribler_conf' = NoLegacyFile
    /\ pc' = "c71_glob"
    /\ UNCHANGED <<heap, log, exc, merge_locals, libtribler_conf, state_files, conf_files,
                   todo, filename, download_cfg, option, run, first_run>>

\* (state_dir / STATEDIR_CHECKPOINT_DIR).glob('*.state')
c71_glob ==
    /\ pc = "c71_glob"
    /\ todo' = glob(state_files)
    /\ pc' = "c71_scan"
    /\ UNCHANGED <<heap, log, exc, merge_locals, current_config, libtribler_conf,
                   tribler_conf, state_files, conf_files, filename, download_cfg, option,
                   run, first_run>>

\* rename_section with remove_section('downloadconfig') left out
rename_section_keeps_old(kv) ==
    kv \cup {<<"download_defaults", e[2], e[3]>> : e \in {d \in kv : d[1] = "downloadconfig"}}

\* the section 'downloadconfig' renamed to 'download_defaults'
rename_section(kv) ==
    {<<IF e[1] = "downloadconfig" THEN "download_defaults" ELSE e[1], e[2], e[3]>> : e \in kv}

\* c71_state_corrupt without the except clause of lines 53-55
c71_state_corrupt_raises(name) ==
    /\ pc = "c71_scan"
    /\ name \in todo
    /\ ~state_files[name].header
    /\ raise("MissingSectionHeaderError")
    /\ UNCHANGED <<heap, log, merge_locals, outer_vars>>

\* one iteration of the loop over the .state files, the file has no section header:
\* it is removed, and items("downloadconfig") of the empty parser raises NoSectionError
c71_state_corrupt(name) ==
    /\ pc = "c71_scan"
    /\ name \in todo
    /\ ~state_files[name].header
    /\ log' = Append(log, "error: removing download state file")
    /\ state_files' = remove(state_files, name)
    /\ todo' = todo \ {name}
    /\ UNCHANGED <<pc, heap, exc, merge_locals, current_config, libtribler_conf,
                   tribler_conf, conf_files, filename, download_cfg, option, run, first_run>>

\* one iteration, the file has 'downloadconfig' and no 'download_defaults': rewritten
c71_state_rename(name) ==
    /\ pc = "c71_scan"
    /\ name \in todo
    /\ state_files[name].header
    /\ has_section(state_files[name].kv, "downloadconfig")
    /\ ~has_section(state_files[name].kv, "download_defaults")
    /\ state_files' = [state_files EXCEPT ![name] = CheckpointFile(rename_section(@.kv))]
    /\ todo' = todo \ {name}
    /\ UNCHANGED <<pc, heap, log, exc, merge_locals, current_config, libtribler_conf,
                   tribler_conf, conf_files, filename, download_cfg, option, run, first_run>>

\* one iteration, NoSectionError or DuplicateSectionError: already converted
c71_state_pass(name) ==
    /\ pc = "c71_scan"
    /\ name \in todo
    /\ state_files[name].header
    /\ \/ ~has_section(state_files[name].kv, "downloadconfig")
       \/ has_section(state_files[name].kv, "download_defaults")
    /\ todo' = todo \ {name}
    /\ UNCHANGED <<pc, heap, log, exc, merge_locals, current_config, libtribler_conf,
                   tribler_conf, state_files, conf_files, filename, download_cfg, option,
                   run, first_run>>

\* return current_config; convert_config_to_tribler74 is called next
c71_return ==
    /\ pc = "c71_scan"
    /\ todo = {}
    /\ pc' = "c74_glob"
    /\ UNCHANGED <<heap, log, exc, merge_locals, outer_vars>>

convert_config_to_tribler71 ==
    \/ c71_libtribler
    \/ c71_libtribler_remove
    \/ c71_tribler
    \/ c71_tribler_remove
    \/ c71_glob
    \/ \E name \in Names : c71_state_corrupt(name)
    \/ \E name \in Names : c71_state_rename(name)
    \/ \E name \in Names : c71_state_pass(name)
    \/ c71_return

----------------------------------------------------------------------------
(* convert_config_to_tribler74 *)

\* (state_dir / STATEDIR_CHECKPOINT_DIR).glob('*.state')
c74_glob ==
    /\ pc = "c74_glob"
    /\ todo' = glob(state_files)
    /\ pc' = "c74_scan"
    /\ UNCHANGED <<heap, log, exc, merge_locals, current_config, libtribler_conf,
                   tribler_conf, state_files, conf_files, filename, download_cfg, option,
                   run, first_run>>

\* old_config.read_file(filename); on MissingSectionHeaderError the file is removed
\* and the loop body goes on with the empty parser
c74_read(name) ==
    /\ pc = "c74_scan"
    /\ name \in todo
    /\ todo' = todo \ {name}
    /\ filename' = name
    /\ option' = 1
    /\ IF state_files[name].header
       THEN /\ download_cfg' = state_files[name].kv
            /\ UNCHANGED <<log, state_files>>
       ELSE /\ download_cfg' = {}
            /\ log' = Append(log, "error: removing download state file")
            /\ state_files' = remove(state_files, name)
    /\ pc' = "c74_option"
    /\ UNCHANGED <<heap, exc, merge_locals, current_config, libtribler_conf, tribler_conf,
                   conf_files, run, first_run>>

\* for section, option in [('state', 'metainfo'), ('state', 'engineresumedata')]
option_name(i) == IF i = 1 THEN "metainfo" ELSE "engineresumedata"

\* the inner loop goes to its next option, or ends
next_option ==
    IF option = 1
    THEN option' = 2 /\ pc' = pc
    ELSE option' = option /\ pc' = "c74_write"

\* one iteration of the inner loop: the value is re-encoded and stored
c74_option_upgrade ==
    /\ pc = "c74_option"
    /\ LET value == get(download_cfg, "state", option_name(option))
       IN  /\ upgrade_outcome(value) = "ok"
           /\ download_cfg' = set(download_cfg, "state", option_name(option),
                                  b64encode_bencode(value))
    /\ next_option
    /\ UNCHANGED <<heap, log, exc, merge_locals, current_config, libtribler_conf,
                   tribler_conf, state_files, conf_files, todo, filename, run, first_run>>

\* one iteration of the inner loop, lines 224-225 raise ValueError: the file is removed
\* and `continue` goes on with the inner loop; os.remove of a file that is no longer
\* there raises FileNotFoundError
c74_option_caught ==
    /\ pc = "c74_option"
    /\ upgrade_outcome(get(download_cfg, "state", option_name(option))) = "caught"
    /\ log' = Append(log, "error: removing download state file")
    /\ IF state_files[filename].exists
       THEN /\ state_files' = remove(state_files, filename)
            /\ next_option
            /\ UNCHANGED exc
       ELSE /\ raise("FileNotFoundError")
            /\ UNCHANGED <<state_files, option>>
    /\ UNCHANGED <<heap, merge_locals, current_config, libtribler_conf, tribler_conf,
                   conf_files, todo, filename, download_cfg, run, first_run>>

\* one iteration of the inner loop, lines 220-222 raise: the exception leaves the function
c74_option_raise ==
    /\ pc = "c74_option"
    /\ upgrade_outcome(get(download_cfg, "state", option_name(option)))
          \in {"TypeError", "ParseError", "ValueError"}
    /\ raise(upgrade_outcome(get(download_cfg, "state", option_name(option))))
    /\ UNCHANGED <<heap, log, merge_locals, outer_vars>>

\* the entries of the ConfigObj of <base>.conf after the copy of the sections of old_config
copy_sections(new_kv, old_kv) ==
    {e \in new_kv : ~has_option(old_kv, e[1], e[2])} \cup old_kv

\* c74_write with new_config.write() left out
c74_write_nothing ==
    /\ pc = "c74_write"
    /\ download_cfg' = remove_option(download_cfg, "state", "dlstate")
    /\ pc' = "c74_remove"
    /\ UNCHANGED <<heap, log, exc, merge_locals, current_config, libtribler_conf,
                   tribler_conf, state_files, conf_files, todo, filename, option, run,
                   first_run>>

\* dlstate removed; new_config = ConfigObj(infile=<base>.conf); the copy; new_config.write()
c74_write ==
    /\ pc = "c74_write"
    /\ download_cfg' = remove_option(download_cfg, "state", "dlstate")
    /\ conf_files' = [conf_files EXCEPT ![filename] =
                         CheckpointFile(copy_sections(@.kv, download_cfg'))]
    /\ pc' = "c74_remove"
    /\ UNCHANGED <<heap, log, exc, merge_locals, current_config, libtribler_conf,
                   tribler_conf, state_files, todo, filename, option, run, first_run>>

\* os.remove(filename), the last statement of the loop body
c74_remove ==
    /\ pc = "c74_remove"
    /\ IF state_files[filename].exists
       THEN /\ state_files' = remove(state_files, filename)
            /\ filename' = ""
            /\ pc' = "c74_scan"
            /\ UNCHANGED exc
       ELSE /\ raise("FileNotFoundError")
            /\ UNCHANGED <<state_files, filename>>
    /\ UNCHANGED <<heap, log, merge_locals, current_config, libtribler_conf, tribler_conf,
                   conf_files, todo, download_cfg, option, run, first_run>>

\* the loop over the .state files ends; convert_config_to_tribler75 is called next
c74_return ==
    /\ pc = "c74_scan"
    /\ todo = {}
    /\ pc' = "c75_glob"
    /\ UNCHANGED <<heap, log, exc, merge_locals, outer_vars>>

convert_config_to_tribler74 ==
    \/ c74_glob
    \/ \E name \in Names : c74_read(name)
    \/ c74_option_upgrade
    \/ c74_option_caught
    \/ c74_option_raise
    \/ c74_write
    \/ c74_remove
    \/ c74_return

----------------------------------------------------------------------------
(* convert_config_to_tribler75 *)

\* (state_dir / STATEDIR_CHECKPOINT_DIR).glob('*.conf')
c75_glob ==
    /\ pc = "c75_glob"
    /\ todo' = glob(conf_files)
    /\ pc' = "c75_scan"
    /\ UNCHANGED <<heap, log, exc, merge_locals, current_config, libtribler_conf,
                   tribler_conf, state_files, conf_files, filename, download_cfg, option,
                   run, first_run>>

\* the test of line 254 with `and` for `or`
no_conversion_both(kv) ==
    /\ get(kv, "download_defaults", "selected_files").p = << >>
    /\ get_metainfo(kv).t = "None"

\* not config.config['download_defaults'].get('selected_files') or not metainfo
no_conversion(kv) ==
    \/ get(kv, "download_defaults", "selected_files").p = << >>
    \/ get_metainfo(kv).t = "None"

\* selected_indexes taken in another order than the path list: reversed
selected_indexes_reversed(files, paths) ==
    [i \in 1..Len(paths) |-> get_index_of_file_in_files(files, paths[Len(paths) + 1 - i])]

\* [tdef.get_index_of_file_in_files(fn) for fn in ...pop('selected_files')]
selected_indexes(files, paths) ==
    [i \in 1..Len(paths) |-> get_index_of_file_in_files(files, paths[i])]

\* converted with 'selected_files' read with get(), not popped
converted_keeps_paths(kv) ==
    set(kv, "download_defaults", "selected_file_indexes",
        Indexes(selected_indexes(get_metainfo(kv).p,
                                 get(kv, "download_defaults", "selected_files").p)))

\* the record after config.set_selected_files([...pop('selected_files')])
converted(kv) ==
    set(remove_option(kv, "download_defaults", "selected_files"),
        "download_defaults", "selected_file_indexes",
        Indexes(selected_indexes(get_metainfo(kv).p,
                                 get(kv, "download_defaults", "selected_files").p)))

\* one iteration of the loop over the .conf files: continue
c75_skip(name) ==
    /\ pc = "c75_scan"
    /\ name \in todo
    /\ no_conversion(conf_files[name].kv)
    /\ todo' = todo \ {name}
    /\ UNCHANGED <<pc, heap, log, exc, merge_locals, current_config, libtribler_conf,
                   tribler_conf, state_files, conf_files, filename, download_cfg, option,
                   run, first_run>>

\* one iteration: every path is found in the file table, the record is written
c75_convert(name) ==
    /\ pc = "c75_scan"
    /\ name \in todo
    /\ ~no_conversion(conf_files[name].kv)
    /\ \A i \in 1..Len(get(conf_files[name].kv, "download_defaults", "selected_files").p) :
          in_files(get_metainfo(conf_files[name].kv).p,
                   get(conf_files[name].kv, "download_defaults", "selected_files").p[i])
    /\ conf_files' = [conf_files EXCEPT ![name] = CheckpointFile(converted(@.kv))]
    /\ todo' = todo \ {name}
    /\ UNCHANGED <<pc, heap, log, exc, merge_locals, current_config, libtribler_conf,
                   tribler_conf, state_files, filename, download_cfg, option, run, first_run>>

\* one iteration: a path is not in the file table, get_index_of_file_in_files raises
c75_raise(name) ==
    /\ pc = "c75_scan"
    /\ name \in todo
    /\ ~no_conversion(conf_files[name].kv)
    /\ \E i \in 1..Len(get(conf_files[name].kv, "download_defaults", "selected_files").p) :
          ~in_files(get_metainfo(conf_files[name].kv).p,
                    get(conf_files[name].kv, "download_defaults", "selected_files").p[i])
    /\ raise("ValueError")
    /\ UNCHANGED <<heap, log, merge_locals, outer_vars>>

\* the loop over the .conf files ends
c75_return ==
    /\ pc = "c75_scan"
    /\ todo = {}
    /\ pc' = "finished"
    /\ UNCHANGED <<heap, log, exc, merge_locals, outer_vars>>

convert_config_to_tribler75 ==
    \/ c75_glob
    \/ \E name \in Names : c75_skip(name)
    \/ \E name \in Names : c75_convert(name)
    \/ \E name \in Names : c75_raise(name)
    \/ c75_return

----------------------------------------------------------------------------
(* The three conversions run in order on a state directory, then once more *)

\* the disk and the settings
Snapshot ==
    [libtribler_conf |-> libtribler_conf, tribler_conf |-> tribler_conf,
     state_files |-> state_files, conf_files |-> conf_files,
     current_config |-> current_config, settings |-> heap[current_config]]

\* the three conversions have returned: they are run again
run_again ==
    /\ pc = "finished"
    /\ run = 1
    /\ run' = 2
    /\ first_run' = Snapshot
    /\ pc' = "c71_libtribler"
    /\ UNCHANGED <<heap, log, exc, merge_locals, current_config, libtribler_conf,
                   tribler_conf, state_files, conf_files, todo, filename, download_cfg,
                   option>>

\* the file table of the torrent of the checkpoints
FileTable == <<"a.txt", "b.txt", "c.txt">>

\* the entries of a .state file: metainfo of kind mi ("" for none), engineresumedata of
\* kind rd, the download section(s), selected_files when sel is not << >>, dlstate
StateEntries(mi, rd, sections, sel, dlstate) ==
    (IF mi = "" THEN {} ELSE {<<"state", "metainfo", Payload(mi, FileTable)>>})
    \cup {<<"state", "engineresumedata", Payload(rd, << >>)>>}
    \cup (IF dlstate THEN {<<"state", "dlstate", Text("3")>>} ELSE {})
    \cup {<<sec, "saveas", Text("/downloads")>> : sec \in sections}
    \cup (IF sel = << >> THEN {}
          ELSE {<<sec, "selected_files", Paths(sel)>> : sec \in sections})

\* the .state files of the model
StateFiles ==
    {HeaderlessFile}
    \cup {CheckpointFile(StateEntries(mi, "py2", {"downloadconfig"}, <<"a.txt", "c.txt">>, TRUE)) :
            mi \in {"py2", "garbage", "nonliteral", "unbencodable", ""}}
    \cup {CheckpointFile(StateEntries("py2", rd, {"download_defaults"}, << >>, FALSE)) :
            rd \in {"garbage", "unbencodable"}}
    \cup {CheckpointFile(StateEntries("py2", "py2", {"download_defaults"}, sel, FALSE)) :
            sel \in {<<"c.txt", "a.txt">>, <<"x.txt">>, << >>}}
    \cup {CheckpointFile(StateEntries("py2", "py2", {"downloadconfig", "download_defaults"},
                                      <<"b.txt">>, TRUE)),
          CheckpointFile(StateEntries("py2", "py2", {}, << >>, TRUE))}

\* the entries of a .conf file: the encoded metainfo when has_metainfo, selected_files
\* when sel is not << >>
ConfEntries(has_metainfo, sel) ==
    (IF has_metainfo THEN {<<"state", "metainfo", Payload("b64", FileTable)>>} ELSE {})
    \cup {<<"state", "engineresumedata", Payload("b64", << >>)>>,
          <<"download_defaults", "saveas", Text("/downloads")>>}
    \cup (IF sel = << >> THEN {} ELSE {<<"download_defaults", "selected_files", Paths(sel)>>})

\* the .conf files of the model
ConfFiles ==
    {CheckpointFile(ConfEntries(TRUE, sel)) :
        sel \in {<<"a.txt", "c.txt">>, <<"c.txt", "a.txt">>, <<"c.txt", "c.txt", "b.txt">>,
                 <<"x.txt">>, << >>}}
    \cup {CheckpointFile(ConfEntries(FALSE, <<"a.txt">>)),
          CheckpointFile(set(ConfEntries(TRUE, << >>), "download_defaults",
                             "selected_file_indexes", Indexes(<<1>>)))}

\* what the checkpoint directory holds under one base name: <<.state file, .conf file>>
CheckpointPairs ==
    {<<Absent, Absent>>}
    \cup {<<f, Absent>> : f \in StateFiles}
    \cup {<<Absent, f>> : f \in ConfFiles}
    \cup {<<CheckpointFile(StateEntries("py2", "py2", {"downloadconfig"},
                                        <<"a.txt", "c.txt">>, TRUE)),
            CheckpointFile(set(ConfEntries(TRUE, << >>), "download_defaults",
                               "selected_file_indexes", Indexes(<<1>>)))>>}

\* the libtribler.conf files of the model
LibtriblerFiles ==
    {NoLegacyFile,
     LegacyFile(<<Field("libtorrent", "utp", "True"), Field("video", "port", "abc")>>),
     LegacyFile(<<Field("libtorrent", "anon_proxyserver", "('h',)")>>)}

\* the tribler.conf files of the model
TriblerFiles ==
    {NoLegacyFile,
     LegacyFile(<<Field("Tribler", "default_number_hops", "abc"),
                  Field("downloadconfig", "saveas", "None")>>),
     LegacyFile(<<Field("downloadconfig", "saveas", "abc")>>)}

\* the conversions are called on a state directory: the three in order, or, on a
\* directory without legacy settings files, the later ones from 74 or from 75 on
Init ==
    /\ \/ /\ pc = "c71_libtribler"
          /\ run = 1
          /\ libtribler_conf \in LibtriblerFiles
          /\ tribler_conf \in TriblerFiles
       \/ /\ pc \in {"c74_glob", "c75_glob"}
          /\ run = 0
          /\ libtribler_conf = NoLegacyFile
          /\ tribler_conf = NoLegacyFile
    /\ caller = "c71"
    /\ fn = "add_libtribler_config"
    /\ heap = <<DefaultSettings>>
    /\ new_config = 1
    /\ old_config = << >>
    /\ idx = 0
    /\ config = 0
    /\ entry_value = heap[1]
    /\ validate_log = << >>
    /\ log = << >>
    /\ exc = ""
    /\ result = 0
    /\ current_config = 1
    /\ \E dir \in [Names -> CheckpointPairs] :
          /\ state_files = [name \in Names |-> dir[name][1]]
          /\ conf_files = [name \in Names |-> dir[name][2]]
    /\ todo = {}
    /\ filename = ""
    /\ download_cfg = {}
    /\ option = 0
    /\ first_run = Snapshot

Next ==
    \/ convert_config_to_tribler71
    \/ add_config
    \/ convert_config_to_tribler74
    \/ convert_config_to_tribler75
    \/ run_again

Spec == Init /\ [][Next]_vars

----------------------------------------------------------------------------
(* Claims about the conversions, checked under Spec *)

\* C7: once the three conversions have returned, in the second run of the three no
\* legacy file and no checkpoint file differs from what the first run left, the
\* settings object is the one passed in with its settings, and no exception is raised.
C7_SecondRunIsNoOp ==
    run = 2 =>
        /\ libtribler_conf = first_run.libtribler_conf
        /\ tribler_conf = first_run.tribler_conf
        /\ state_files = first_run.state_files
        /\ conf_files = first_run.conf_files
        /\ current_config = first_run.current_config
        /\ heap[current_config] = first_run.settings
        /\ pc # "raised"

\* C7 witness: the second run has finished on a directory in which the first run merged
\* a legacy file into the settings and left two .conf files, one of them with the
\* indexes it converted.
C7_Witness ==
    /\ run = 2 /\ pc = "finished"
    /\ heap[current_config] # DefaultSettings
    /\ conf_files["d1"].exists /\ conf_files["d2"].exists
    /\ get(conf_files["d1"].kv, "download_defaults", "selected_file_indexes").n = <<0, 2>>
    /\ ~has_option(conf_files["d1"].kv, "download_defaults", "selected_files")

\* the .state file is on disk and its metainfo is no structured literal
UnparsableMetainfo(name) ==
    /\ state_files[name].exists
    /\ state_files[name].header
    /\ get(state_files[name].kv, "state", "metainfo").t \in {"garbage", "nonliteral"}

\* C8 (the claim as stated): in a directory with several .state files, the scan of
\* convert_config_to_tribler74 does not end in an exception at a file whose metainfo
\* cannot be parsed, leaving that file on disk and the files after it unmigrated; it
\* deletes the file and goes on.
C8_UnparsableMetainfoDoesNotAbort ==
    ~(/\ pc = "raised"
      /\ filename \in Names
      /\ UnparsableMetainfo(filename)
      /\ \E other \in todo : state_files[other].exists)

\* C9 (the claim as stated): in a directory with several .state files, the scan of
\* convert_config_to_tribler74 does not end in an exception at a file without section
\* headers, which it has deleted, leaving the files after it unmigrated.
C9_HeaderlessFileDoesNotAbort ==
    ~(/\ pc = "raised"
      /\ filename \in Names
      /\ download_cfg = {}
      /\ ~state_files[filename].exists
      /\ \E other \in todo : state_files[other].exists)

\* the step is an iteration of convert_config_to_tribler75 on the file `name`, which
\* has a non-empty selected_files, metainfo, and every path in the file table
ConvertStep(name) ==
    /\ pc = "c75_scan"
    /\ name \in todo /\ name \notin todo'
    /\ get(conf_files[name].kv, "download_defaults", "selected_files").p # << >>
    /\ get_metainfo(conf_files[name].kv).t # "None"
    /\ \A i \in 1..Len(get(conf_files[name].kv, "download_defaults", "selected_files").p) :
          in_files(get_metainfo(conf_files[name].kv).p,
                   get(conf_files[name].kv, "download_defaults", "selected_files").p[i])

\* C10: the record convert_config_to_tribler75 writes for such a file has an index
\* list as long as the path list, whose i-th index is the place in the file table,
\* counted from 0, of the i-th path, and has no selected_files; nothing else changes.
C10_IndexesArePositional ==
    [][\A name \in Names :
          ConvertStep(name) =>
              LET paths == get(conf_files[name].kv, "download_defaults", "selected_files").p
                  files == get_metainfo(conf_files[name].kv).p
                  written == conf_files'[name].kv
                  indexes == get(written, "download_defaults", "selected_file_indexes").n
              IN  /\ conf_files'[name].exists
                  /\ Len(indexes) = Len(paths)
                  /\ \A i \in 1..Len(paths) :
                        /\ files[indexes[i] + 1] = paths[i]
                        /\ \A j \in 1..indexes[i] : files[j] # paths[i]
                  /\ ~has_option(written, "download_defaults", "selected_files")
                  /\ \A e \in conf_files[name].kv :
                        e[2] \notin {"selected_files", "selected_file_indexes"} => e \in written
                  /\ \A e \in written :
                        e[2] # "selected_file_indexes" => e \in conf_files[name].kv]_vars

\* C10 witness: the stage converted ["a.txt", "c.txt"] to [0, 2] in one file and
\* ["c.txt", "a.txt"] to [2, 0] in the other, and neither holds selected_files.
C10_Witness ==
    /\ pc = "c75_scan" /\ run = 1 /\ todo = {}
    /\ get(conf_files["d1"].kv, "download_defaults", "selected_file_indexes").n = <<0, 2>>
    /\ get(conf_files["d2"].kv, "download_defaults", "selected_file_indexes").n = <<2, 0>>
    /\ ~has_option(conf_files["d1"].kv, "download_defaults", "selected_files")
    /\ ~has_option(conf_files["d2"].kv, "download_defaults", "selected_files")

\* the .conf file has no selected_files or an empty one, or it has no metainfo
NothingToConvert(name) ==
    /\ conf_files[name].exists
    /\ \/ ~has_option(conf_files[name].kv, "download_defaults", "selected_files")
       \/ get(conf_files[name].kv, "download_defaults", "selected_files").p = << >>
       \/ ~has_option(conf_files[name].kv, "state", "metainfo")

\* C11: during the scan of convert_config_to_tribler75 a .conf file without
\* selected_files (or with an empty one) or without metainfo keeps its content in every
\* step; the step that takes it goes on with the scan, and no exception is raised at it.
C11_NothingToConvertIsUntouched ==
    [][\A name \in Names :
          (pc = "c75_scan" /\ name \in todo /\ NothingToConvert(name)) =>
              /\ conf_files'[name] = conf_files[name]
              /\ name \notin todo' => (pc' = "c75_scan" /\ conf_files' = conf_files)
              /\ pc' = "raised" => \E other \in todo \ {name} : ~NothingToConvert(other)]_vars

\* C11 witness: convert_config_to_tribler75 has scanned a directory of a file without
\* selected_files and a file with selected_files and no metainfo; both are as they were.
C11_Witness ==
    /\ pc = "c75_scan" /\ run = 0 /\ todo = {}
    /\ conf_files["d1"] = CheckpointFile(ConfEntries(TRUE, << >>))
    /\ conf_files["d2"] = CheckpointFile(ConfEntries(FALSE, <<"a.txt">>))

\* the .conf file has metainfo, and a path of its selected_files is not in the file table
Unresolvable(name) ==
    /\ conf_files[name].exists
    /\ get_metainfo(conf_files[name].kv).t # "None"
    /\ \E i \in 1..Len(get(conf_files[name].kv, "download_defaults", "selected_files").p) :
          ~in_files(get_metainfo(conf_files[name].kv).p,
                    get(conf_files[name].kv, "download_defaults", "selected_files").p[i])

\* C12 (the claim as stated): while a .conf file with an unresolvable selected_files
\* path and another .conf file wait in the scan of convert_config_to_tribler75, every
\* step leaves the former's content as it was and the scan goes on: no exception is raised.
C12_UnresolvablePathIsSkipped ==
    [][\A name \in Names :
          (/\ pc = "c75_scan"
           /\ name \in todo
           /\ Unresolvable(name)
           /\ \E other \in todo \ {name} : conf_files[other].exists) =>
              /\ pc' = "c75_scan"
              /\ conf_files'[name] = conf_files[name]]_vars

\* lines 220-229 have taken the payload option o of the record in hand
Taken(o) ==
    /\ filename \in Names
    /\ \/ pc \in {"c74_write", "c74_remove"}
       \/ pc = "c74_option" /\ option > o
       \/ pc = "raised" /\ option >= o

\* the payload option o of the record in hand was taken and could not be re-encoded
FailedPayload(o) ==
    /\ Taken(o)
    /\ get(download_cfg, "state", option_name(o)).t \in {"garbage", "nonliteral", "unbencodable"}

\* C13 (the claim as stated): once a payload field of a record could not be decoded or
\* re-encoded in convert_config_to_tribler74, the .state file of the record is removed
\* and the record is not processed further: no other option is taken, no .conf file is
\* written, nothing is removed again and no exception is raised.
C13_FailedPayloadIsDeletionOnly ==
    \A o \in 1..2 :
        FailedPayload(o) =>
            /\ ~state_files[filename].exists
            /\ pc \notin {"c74_option", "c74_write", "c74_remove", "raised"}

\* convert_config_to_tribler74 is in its loop over the .state files
InScan74 == pc \in {"c74_scan", "c74_option", "c74_write", "c74_remove"}

\* C14 (the claim as stated): in convert_config_to_tribler74 the .state file of a record
\* is deleted only by the last statement of the loop body, after its .conf file was
\* written.
C14_StateDeletedAfterConfWritten ==
    [][\A name \in Names :
          (InScan74 /\ state_files[name].exists /\ ~state_files'[name].exists) =>
              /\ pc = "c74_remove"
              /\ conf_files[name].exists]_vars

\* the .state file has section headers and two payload fields that can be re-encoded
SoundRecord(name) ==
    /\ state_files[name].exists
    /\ state_files[name].header
    /\ get(state_files[name].kv, "state", "metainfo").t = "py2"
    /\ get(state_files[name].kv, "state", "engineresumedata").t = "py2"

\* C14 (amended): for a record whose .state file has section headers and whose two
\* payload fields can be re-encoded, <base>.conf is written only once both fields are
\* re-encoded, while <base>.state is on disk, and <base>.state is deleted only by the
\* last statement of the loop body, when <base>.conf holds the upgraded record; a file
\* without section headers, or with a payload that cannot be re-encoded, is deleted
\* with no .conf file written before.
C14_SoundRecordWrittenThenDeleted ==
    [][\A name \in Names :
          (InScan74 /\ SoundRecord(name)) =>
              /\ conf_files'[name] # conf_files[name] =>
                    /\ pc = "c74_write" /\ filename = name
                    /\ get(download_cfg, "state", "metainfo").t = "b64"
                    /\ get(download_cfg, "state", "engineresumedata").t = "b64"
                    /\ state_files'[name].exists
              /\ ~state_files'[name].exists =>
                    /\ pc = "c74_remove" /\ filename = name
                    /\ conf_files[name].exists
                    /\ download_cfg \subseteq conf_files[name].kv]_vars

\* C14 witness: convert_config_to_tribler74, called on its own, has scanned a directory
\* whose d1.state had two Python 2 payloads: d1.state is gone and d1.conf holds the
\* record with both payloads re-encoded.
C14_Witness ==
    /\ pc = "c74_scan" /\ run = 0 /\ todo = {} /\ filename = ""
    /\ ~state_files["d1"].exists
    /\ conf_files["d1"] = CheckpointFile(StateEntries("b64", "b64", {"downloadconfig"},
                                                      <<"a.txt", "c.txt">>, FALSE))

\* C15 (the claim as stated): in convert_config_to_tribler71 libtribler.conf is not
\* deleted, while tribler.conf is on disk, before add_tribler_config has returned.
C15_DeletedAfterBothPasses ==
    [][(libtribler_conf.exists /\ ~libtribler_conf'.exists /\ tribler_conf.exists) =>
          (fn = "add_tribler_config" /\ pc = "c71_tribler_remove")]_vars

\* C15 (amended): libtribler.conf is deleted when add_libtribler_config has returned,
\* with tribler.conf left as it is, and add_tribler_config is called only when
\* libtribler.conf is gone; tribler.conf is deleted when add_tribler_config has returned.
C15_EachDeletedAfterItsOwnPass ==
    [][/\ (libtribler_conf.exists /\ ~libtribler_conf'.exists) =>
              /\ pc = "c71_libtribler_remove" /\ fn = "add_libtribler_config"
              /\ current_config' = result
              /\ tribler_conf' = tribler_conf
              /\ pc' = "c71_tribler"
       /\ (pc = "c71_tribler" /\ pc' = "add_config") =>
              /\ ~libtribler_conf.exists
              /\ fn' = "add_tribler_config"
       /\ (tribler_conf.exists /\ ~tribler_conf'.exists) =>
              /\ pc = "c71_tribler_remove" /\ fn = "add_tribler_config"
              /\ ~libtribler_conf.exists]_vars

\* C15 witness: both legacy files were there; add_libtribler_config has returned a new
\* object, libtribler.conf is gone, and add_tribler_config runs on tribler.conf, which
\* is on disk.
C15_Witness ==
    /\ run = 1 /\ pc = "add_config_loop" /\ fn = "add_tribler_config"
    /\ new_config # 1
    /\ ~libtribler_conf.exists
    /\ tribler_conf.exists

\* the key/value pairs of a section
items(kv, section) == {<<e[2], e[3]>> : e \in {d \in kv : d[1] = section}}

\* the entries of the sections other than the two download sections
OtherSections(kv) == {e \in kv : e[1] \notin {"downloadconfig", "download_defaults"}}

\* C16: the iteration of convert_config_to_tribler71 on a .state file with section
\* headers rewrites a file that has downloadconfig and no download_defaults so that
\* download_defaults holds exactly the pairs downloadconfig held, downloadconfig is
\* gone and the other sections are as they were; any other file it leaves as it is.
C16_SectionIsRenamed ==
    [][\A name \in Names :
          (pc = "c71_scan" /\ name \in todo /\ name \notin todo' /\ state_files[name].header) =>
              LET before == state_files[name].kv
                  after == state_files'[name].kv
              IN  IF has_section(before, "downloadconfig")
                     /\ ~has_section(before, "download_defaults")
                  THEN /\ state_files'[name].exists /\ state_files'[name].header
                       /\ items(after, "download_defaults") = items(before, "downloadconfig")
                       /\ ~has_section(after, "downloadconfig")
                       /\ OtherSections(after) = OtherSections(before)
                  ELSE state_files'[name] = state_files[name]]_vars

\* C16 witness: convert_config_to_tribler71 has scanned a directory whose d1.state had
\* downloadconfig only, now renamed, and whose d2.state has both sections, as before.
C16_Witness ==
    /\ run = 1 /\ pc = "c71_scan" /\ todo = {}
    /\ state_files["d1"] = CheckpointFile(StateEntries("py2", "py2", {"download_defaults"},
                                                       <<"a.txt", "c.txt">>, TRUE))
    /\ state_files["d2"] = CheckpointFile(StateEntries("py2", "py2",
                                                       {"downloadconfig", "download_defaults"},
                                                       <<"b.txt">>, TRUE))

\* the .state file is on disk and still has downloadconfig to rename
ToRename(name) ==
    /\ state_files[name].exists
    /\ has_section(state_files[name].kv, "downloadconfig")
    /\ ~has_section(state_files[name].kv, "download_defaults")

\* C17: the iteration of convert_config_to_tribler71 on a .state file without section
\* headers deletes the file and touches no other file; no step of the scan raises an
\* exception, and the scan returns only when it has taken every file, with no file
\* without section headers and no file with downloadconfig to rename left on disk.
C17_HeaderlessFileIsDeleted ==
    [][pc = "c71_scan" =>
          /\ pc' \in {"c71_scan", "c74_glob"}
          /\ \A name \in todo :
                (name \notin todo' /\ ~state_files[name].header) =>
                    /\ ~state_files'[name].exists
                    /\ \A other \in Names \ {name} : state_files'[other] = state_files[other]
          /\ pc' = "c74_glob" =>
                /\ todo = {}
                /\ \A name \in Names :
                      state_files[name].exists =>
                          (state_files[name].header /\ ~ToRename(name))]_vars

\* C17 witness: convert_config_to_tribler71 has returned on a directory of a .state
\* file without section headers, now deleted and logged, and a .state file with
\* downloadconfig, now renamed.
C17_Witness ==
    /\ run = 1 /\ pc = "c74_glob"
    /\ ~state_files["d1"].exists /\ ~conf_files["d1"].exists
    /\ \E i \in 1..Len(log) : log[i] = "error: removing download state file"
    /\ state_files["d2"] = CheckpointFile(StateEntries("py2", "py2", {"download_defaults"},
                                                       <<"a.txt", "c.txt">>, TRUE))

\* C18 (the claim as stated): the step of convert_config_to_tribler74 that removes
\* dlstate and writes <base>.conf is taken only with both payload fields re-encoded,
\* and the .conf file it writes has no dlstate in its state section and holds every
\* other entry of the upgraded record.
C18_DlstateRemovedAfterBothPayloads ==
    [][(pc = "c74_write" /\ pc' = "c74_remove") =>
          /\ get(download_cfg, "state", "metainfo").t = "b64"
          /\ get(download_cfg, "state", "engineresumedata").t = "b64"
          /\ ~has_option(conf_files'[filename].kv, "state", "dlstate")
          /\ \A e \in download_cfg :
                (e[1] = "state" /\ e[2] = "dlstate") \/ e \in conf_files'[filename].kv]_vars

\* the legacy file the merge function f was called on is on disk
OnDisk(f) ==
    IF f = "add_libtribler_config" THEN libtribler_conf.exists ELSE tribler_conf.exists

\* C20: in convert_config_to_tribler71 a legacy file is deleted by the step that
\* follows the return of the merge call on its contents and by no other step: the call
\* returns with the file on disk, the next step deletes it whatever was adopted, and
\* when the call raises the file stays on disk.
C20_DeletedExactlyWhenMergeReturned ==
    [][/\ (libtribler_conf.exists /\ ~libtribler_conf'.exists) => pc = "c71_libtribler_remove"
       /\ (tribler_conf.exists /\ ~tribler_conf'.exists) => pc = "c71_tribler_remove"
       /\ (pc = "add_config_loop" /\ pc' \in {"c71_libtribler_remove", "c71_tribler_remove"}) =>
              /\ idx > Len(old_config)
              /\ pc' = return_to("c71", fn)
              /\ OnDisk(fn) /\ OnDisk(fn)'
       /\ pc = "c71_libtribler_remove" => (libtribler_conf.exists /\ ~libtribler_conf'.exists)
       /\ pc = "c71_tribler_remove" => (tribler_conf.exists /\ ~tribler_conf'.exists)
       /\ (pc \in {"add_config", "add_config_loop"} /\ pc' = "raised") =>
              (OnDisk(fn) /\ OnDisk(fn)')]_vars

\* C20 witness: add_tribler_config has returned with its one field that reached
\* validate() rejected and the settings as they were at its entry, and tribler.conf is
\* deleted.
C20_Witness ==
    /\ run = 1 /\ pc = "c71_glob" /\ fn = "add_tribler_config"
    /\ Len(validate_log) = 1 /\ ~validate_log[1].passed
    /\ heap[current_config] = entry_value
    /\ ~tribler_conf.exists

====
